---- MODULE Spec2Model ----
(***************************************************************************)
(* Model of scripts/check_changelog.py: the section parser                 *)
(* (parse_sections) and the validation pipeline of main.                   *)
(*                                                                         *)
(* A line of text is a sequence of one-character strings, so the regular   *)
(* expressions and the str methods of the script are operators that walk   *)
(* the characters the way the script's patterns do.                        *)
(***************************************************************************)
EXTENDS Integers, Sequences, FiniteSets, TLC

\* ------------------------------------------------------------------------
\* Characters and the str / re primitives the script uses
\* ------------------------------------------------------------------------

\* Python's None (Section.version, Section.date, the fields of an outcome
\* that a message does not carry).  No matched group is ever empty.
None == <<>>

\* \s of the re module, and what str.strip removes, within the alphabet used
Whitespace == {" ", "\t", "\n", "\r"}

\* \d
Digit == {"0", "1", "2", "3", "4", "5", "6", "7", "8", "9"}

UpperAlpha ==
  <<"A","B","C","D","E","F","G","H","I","J","K","L","M",
    "N","O","P","Q","R","S","T","U","V","W","X","Y","Z">>

LowerAlpha ==
  <<"a","b","c","d","e","f","g","h","i","j","k","l","m",
    "n","o","p","q","r","s","t","u","v","w","x","y","z">>

\* re.IGNORECASE compares letters by their case-folded form
Lower(c) ==
  IF \E k \in DOMAIN UpperAlpha : UpperAlpha[k] = c
    THEN LowerAlpha[CHOOSE k \in DOMAIN UpperAlpha : UpperAlpha[k] = c]
    ELSE c

\* s[i] = c, false past the end of s
At(s, i, c) == i >= 1 /\ i <= Len(s) /\ s[i] = c

\* \s* from position i: the position of the first character that is not
\* whitespace (Len(s) + 1 when there is none)
RECURSIVE SkipWS(_, _)
SkipWS(s, i) ==
  IF i <= Len(s) /\ s[i] \in Whitespace THEN SkipWS(s, i + 1) ELSE i

\* \d* from position i
RECURSIVE SkipDigits(_, _)
SkipDigits(s, i) ==
  IF i <= Len(s) /\ s[i] \in Digit THEN SkipDigits(s, i + 1) ELSE i

\* the literal w at position i of s
Literal(s, i, w) ==
  /\ i + Len(w) - 1 <= Len(s)
  /\ \A k \in 1..Len(w) : s[i + k - 1] = w[k]

\* the literal w (given in lower case) at position i, under re.IGNORECASE
LiteralCI(s, i, w) ==
  /\ i + Len(w) - 1 <= Len(s)
  /\ \A k \in 1..Len(w) : Lower(s[i + k - 1]) = w[k]

\* \d{n} at position i
DigitsN(s, i, n) ==
  /\ i + n - 1 <= Len(s)
  /\ \A k \in 0..(n - 1) : s[i + k] \in Digit

\* the last position of s that is not whitespace (0 when there is none)
RECURSIVE LastNonWS(_, _)
LastNonWS(s, i) ==
  IF i >= 1 /\ s[i] \in Whitespace THEN LastNonWS(s, i - 1) ELSE i

\* str.strip()
Strip(s) == SubSeq(s, SkipWS(s, 1), LastNonWS(s, Len(s)))

\* str.startswith(prefix)
StartsWith(s, prefix) == Literal(s, 1, prefix)

\* str.rstrip("\n")
RECURSIVE RStripNL(_)
RStripNL(s) ==
  IF Len(s) > 0 /\ s[Len(s)] = "\n" THEN RStripNL(SubSeq(s, 1, Len(s) - 1)) ELSE s

\* ------------------------------------------------------------------------
\* The four patterns
\* ------------------------------------------------------------------------

\* \d{4}-\d{2}-\d{2} at position i
DateAt(s, i) ==
  /\ DigitsN(s, i, 4) /\ At(s, i + 4, "-")
  /\ DigitsN(s, i + 5, 2) /\ At(s, i + 7, "-")
  /\ DigitsN(s, i + 8, 2)

\* VERSION_RE.match(line): [ok, ver, date].  The groups are walked left to
\* right; the optional date group is tried first and given up when the rest
\* of the line does not match with it.
VERSION_RE(line) ==
  LET noMatch == [ok |-> FALSE, ver |-> None, date |-> None]
      lb == SkipWS(line, 3)
      a  == SkipDigits(line, lb + 1)
      b  == SkipDigits(line, a + 1)
      c  == SkipDigits(line, b + 1)
      dash == SkipWS(line, c + 1)
      d  == SkipWS(line, dash + 1)
  IN  IF /\ Literal(line, 1, <<"#", "#">>)
         /\ lb > 3 /\ At(line, lb, "[")
         /\ a > lb + 1 /\ At(line, a, ".")
         /\ b > a + 1 /\ At(line, b, ".")
         /\ c > b + 1 /\ At(line, c, "]")
      THEN IF /\ At(line, dash, "-") /\ DateAt(line, d)
              /\ SkipWS(line, d + 10) = Len(line) + 1
           THEN [ok |-> TRUE, ver |-> SubSeq(line, lb + 1, c - 1),
                 date |-> SubSeq(line, d, d + 9)]
           ELSE IF SkipWS(line, c + 1) = Len(line) + 1
                THEN [ok |-> TRUE, ver |-> SubSeq(line, lb + 1, c - 1),
                      date |-> None]
                ELSE noMatch
      ELSE noMatch

\* UNRELEASED_RE.match(line)
UNRELEASED_RE(line) ==
  LET lb == SkipWS(line, 3)
      label == <<"[", "u", "n", "r", "e", "l", "e", "a", "s", "e", "d", "]">>
  IN  /\ Literal(line, 1, <<"#", "#">>)
      /\ lb > 3
      /\ LiteralCI(line, lb, label)
      /\ SkipWS(line, lb + Len(label)) = Len(line) + 1

\* the five labels of CATEGORY_RE, in lower case
CategoryLabels ==
  { <<"a", "d", "d", "e", "d">>,
    <<"c", "h", "a", "n", "g", "e", "d">>,
    <<"f", "i", "x", "e", "d">>,
    <<"r", "e", "m", "o", "v", "e", "d">>,
    <<"s", "e", "c", "u", "r", "i", "t", "y">> }

\* CATEGORY_RE.match(line)
CATEGORY_RE(line) ==
  LET w == SkipWS(line, 4)
  IN  /\ Literal(line, 1, <<"#", "#", "#">>)
      /\ w > 4
      /\ \E label \in CategoryLabels :
           /\ LiteralCI(line, w, label)
           /\ SkipWS(line, w + Len(label)) = Len(line) + 1

\* BULLET_RE.match(line): ^\s*[-*]\s+\S+ , a prefix match
BULLET_RE(line) ==
  LET m == SkipWS(line, 1)
      t == SkipWS(line, m + 1)
  IN  /\ (At(line, m, "-") \/ At(line, m, "*"))
      /\ t > m + 1
      /\ t <= Len(line)

\* ------------------------------------------------------------------------
\* Section and parse_sections
\* ------------------------------------------------------------------------

\* Section(kind, version, date, start_line, lines)
Section(kind, version, date, start_line, body) ==
  [kind |-> kind, version |-> version, date |-> date,
   start_line |-> start_line, lines |-> body]

\* flush(): the parser state is [sections, current]; current is <<>> for
\* None and <<section>> for an open section
flush(ps) ==
  IF ps.current # <<>>
    THEN [sections |-> Append(ps.sections, ps.current[1]), current |-> <<>>]
    ELSE ps

\* ParseLine with the flush() before a version section is opened left out:
\* the section that was open is dropped
ParseLineNoFlush(ps, idx, raw) ==
  LET line == RStripNL(raw)
      m == VERSION_RE(line)
  IN  IF UNRELEASED_RE(line)
        THEN [flush(ps) EXCEPT
                !.current = <<Section("unreleased", None, None, idx, <<>>)>>]
      ELSE IF m.ok
        THEN [ps EXCEPT
                !.current = <<Section("version", m.ver, m.date, idx, <<>>)>>]
      ELSE IF ps.current # <<>>
        THEN [ps EXCEPT !.current[1].lines = Append(@, line)]
      ELSE ps

\* one iteration of the for loop of parse_sections, on the raw line of
\* 1-based number idx
ParseLine(ps, idx, raw) ==
  LET line == RStripNL(raw)
      m == VERSION_RE(line)
  IN  IF UNRELEASED_RE(line)
        THEN [flush(ps) EXCEPT
                !.current = <<Section("unreleased", None, None, idx, <<>>)>>]
      ELSE IF m.ok
        THEN [flush(ps) EXCEPT
                !.current = <<Section("version", m.ver, m.date, idx, <<>>)>>]
      ELSE IF ps.current # <<>>
        THEN [ps EXCEPT !.current[1].lines = Append(@, line)]
      ELSE ps

\* the parser state after the first n lines
RECURSIVE ParsePrefix(_, _)
ParsePrefix(text, n) ==
  IF n = 0 THEN [sections |-> <<>>, current |-> <<>>]
  ELSE ParseLine(ParsePrefix(text, n - 1), n, text[n])

\* parse_sections(lines)
parse_sections(text) == flush(ParsePrefix(text, Len(text))).sections

\* ------------------------------------------------------------------------
\* semver_key and sorted(..., key=semver_key, reverse=True)
\* ------------------------------------------------------------------------

DigitValue(c) ==
  CASE c = "0" -> 0 [] c = "1" -> 1 [] c = "2" -> 2 [] c = "3" -> 3
    [] c = "4" -> 4 [] c = "5" -> 5 [] c = "6" -> 6 [] c = "7" -> 7
    [] c = "8" -> 8 [] c = "9" -> 9

\* int(s) of a string of decimal digits
RECURSIVE int(_)
int(s) ==
  IF Len(s) = 0 THEN 0
  ELSE 10 * int(SubSeq(s, 1, Len(s) - 1)) + DigitValue(s[Len(s)])

\* v.split("."): the pieces of v between the dots
RECURSIVE split(_)
split(v) ==
  LET dot == SkipDigits(v, 1)
  IN  IF dot > Len(v) THEN <<v>>
      ELSE <<SubSeq(v, 1, dot - 1)>> \o split(SubSeq(v, dot + 1, Len(v)))

\* semver_key(v)
semver_key(v) ==
  LET p == split(v) IN <<int(p[1]), int(p[2]), int(p[3])>>

\* tuple comparison k1 > k2 of two SemVerKey
KeyGreater(k1, k2) ==
  \/ k1[1] > k2[1]
  \/ k1[1] = k2[1] /\ k1[2] > k2[2]
  \/ k1[1] = k2[1] /\ k1[2] = k2[2] /\ k1[3] > k2[3]

\* where a stable descending sort puts v in the sorted list acc: behind every
\* element whose key is greater than or equal to that of v
RECURSIVE InsertDesc(_, _)
InsertDesc(acc, v) ==
  IF acc = <<>> THEN <<v>>
  ELSE IF KeyGreater(semver_key(v), semver_key(acc[1]))
    THEN <<v>> \o acc
    ELSE <<acc[1]>> \o InsertDesc(Tail(acc), v)

\* sorted(vs, key=semver_key, reverse=True); the sort is stable, and
\* reverse=True keeps the original order of elements with equal keys
RECURSIVE sorted_desc(_)
sorted_desc(vs) ==
  IF vs = <<>> THEN <<>>
  ELSE InsertDesc(sorted_desc(SubSeq(vs, 1, Len(vs) - 1)), vs[Len(vs)])

\* ------------------------------------------------------------------------
\* The rules of main, one operator per return statement
\* ------------------------------------------------------------------------

\* lines[:20]
HeaderWindow == 20

\* what fail(msg) reports: the kind of failure and the values its message
\* carries (None and 0 for those the message does not have)
Outcome(kind, version, line, found, expected) ==
  [kind |-> kind, version |-> version, line |-> line,
   found |-> found, expected |-> expected]

Pending == Outcome("Pending", None, 0, <<>>, <<>>)

Success == Outcome("Success", None, 0, <<>>, <<>>)

\* any(line.strip().startswith("#") for line in lines[:20])
HasHeader(text) ==
  \E i \in 1..Len(text) :
    i <= HeaderWindow /\ StartsWith(Strip(text[i]), <<"#">>)

\* any(s.kind == "unreleased" for s in sections)
HasUnreleased(secs) == \E i \in 1..Len(secs) : secs[i].kind = "unreleased"

IsVersion(s) == s.kind = "version"

\* versions = [s for s in sections if s.kind == "version"]
VersionsOf(secs) == SelectSeq(secs, IsVersion)

\* the loop over versions with the set seen, from the i-th version on: the
\* index of the first version whose string is in seen, 0 when the loop ends
RECURSIVE FirstSeen(_, _, _)
FirstSeen(vs, i, seen) ==
  IF i > Len(vs) THEN 0
  ELSE IF vs[i].version \in seen THEN i
  ELSE FirstSeen(vs, i + 1, seen \cup {vs[i].version})

\* [s.version for s in versions if s.version]
RECURSIVE InFile(_)
InFile(vs) ==
  IF vs = <<>> THEN <<>>
  ELSE IF vs[1].version # None THEN <<vs[1].version>> \o InFile(Tail(vs))
  ELSE InFile(Tail(vs))

HasNoDate(s) == s.date = None

\* missing = [s for s in versions if s.date is None]
MissingDates(vs) == SelectSeq(vs, HasNoDate)

\* any(BULLET_RE.match(line) for line in body)
HasBullet(body) == \E i \in 1..Len(body) : BULLET_RE(body[i])

\* BulletBeforeHeading breaking on the lines CATEGORY_RE matches, not on the
\* lines whose stripped text starts with "### "
RECURSIVE BulletBeforeCategory(_, _)
BulletBeforeCategory(body, j) ==
  IF j > Len(body) THEN FALSE
  ELSE IF CATEGORY_RE(body[j]) THEN FALSE
  ELSE IF BULLET_RE(body[j]) THEN TRUE
  ELSE BulletBeforeCategory(body, j + 1)

\* the inner loop "for line in body[ci + 1:]", from the j-th line of body on:
\* TRUE when it reaches a bullet, FALSE when it breaks on a line whose
\* stripped text starts with "### " or runs off the end of the body
RECURSIVE BulletBeforeHeading(_, _)
BulletBeforeHeading(body, j) ==
  IF j > Len(body) THEN FALSE
  ELSE IF StartsWith(Strip(body[j]), <<"#", "#", "#", " ">>) THEN FALSE
  ELSE IF BULLET_RE(body[j]) THEN TRUE
  ELSE BulletBeforeHeading(body, j + 1)

\* categories = [i for i, line in enumerate(body) if CATEGORY_RE.match(line)]
Categories(body) == {i \in 1..Len(body) : CATEGORY_RE(body[i])}

\* ContentCheck with the category check in front of the bullet check
ContentCheckCategoriesFirst(s) ==
  IF /\ Categories(s.lines) # {}
     /\ ~\E ci \in Categories(s.lines) : BulletBeforeHeading(s.lines, ci + 1)
    THEN "UncategorizedContent"
  ELSE IF ~HasBullet(s.lines) THEN "EmptySection"
  ELSE "ok"

\* ContentCheck asking for a bullet under every category, not under some
ContentCheckEveryCategory(s) ==
  IF ~HasBullet(s.lines) THEN "EmptySection"
  ELSE IF \E ci \in Categories(s.lines) : ~BulletBeforeHeading(s.lines, ci + 1)
    THEN "UncategorizedContent"
  ELSE "ok"

\* the body of "for s in versions" in the content check, for one section:
\* the failure it returns, or "ok" when the loop goes on
ContentCheck(s) ==
  IF ~HasBullet(s.lines) THEN "EmptySection"
  ELSE IF /\ Categories(s.lines) # {}
          /\ ~\E ci \in Categories(s.lines) : BulletBeforeHeading(s.lines, ci + 1)
    THEN "UncategorizedContent"
  ELSE "ok"

\* the content loop from the i-th version on: the index of the first version
\* it fails on, 0 when it ends
RECURSIVE FirstBadContent(_, _)
FirstBadContent(vs, i) ==
  IF i > Len(vs) THEN 0
  ELSE IF ContentCheck(vs[i]) # "ok" THEN i
  ELSE FirstBadContent(vs, i + 1)

\* "Basic header sanity": the failure, or Pending when main goes on
CheckHeader(text) ==
  IF ~HasHeader(text)
    THEN Outcome("MissingHeader", None, 0, <<>>, <<>>)
    ELSE Pending

\* CheckUnreleased asking for exactly one Unreleased section
CheckUnreleasedExactlyOne(secs, ru) ==
  IF ru /\ Cardinality({i \in 1..Len(secs) : secs[i].kind = "unreleased"}) # 1
    THEN Outcome("MissingUnreleased", None, 0, <<>>, <<>>)
    ELSE Pending

\* if require_unreleased and not any(s.kind == "unreleased" ...)
CheckUnreleased(secs, ru) ==
  IF ru /\ ~HasUnreleased(secs)
    THEN Outcome("MissingUnreleased", None, 0, <<>>, <<>>)
    ELSE Pending

\* CheckVersions with "if versions is None" for "if not versions": an empty
\* list passes
CheckVersionsIsNone(vs) == Pending

\* if not versions
CheckVersions(vs) ==
  IF vs = <<>>
    THEN Outcome("NoVersions", None, 0, <<>>, <<>>)
    ELSE Pending

\* "No duplicates"
CheckDuplicates(vs) ==
  LET i == FirstSeen(vs, 1, {})
  IN  IF i # 0
        THEN Outcome("DuplicateVersion", vs[i].version, vs[i].start_line, <<>>, <<>>)
        ELSE Pending

\* "Descending order (top to bottom) check"
CheckOrder(vs) ==
  LET in_file == InFile(vs)
      expected == sorted_desc(InFile(vs))
  IN  IF in_file # expected
        THEN Outcome("OutOfOrder", None, 0, in_file, expected)
        ELSE Pending

\* CheckDates reporting missing[-1] for missing[0]
CheckDatesLast(vs, rd) ==
  LET missing == SelectSeq(vs, HasNoDate)
  IN  IF rd /\ missing # <<>>
        THEN Outcome("MissingDate", missing[Len(missing)].version,
                     missing[Len(missing)].start_line, <<>>, <<>>)
        ELSE Pending

\* CheckDates with the flag read the wrong way round: "if not require_dates"
CheckDatesInverted(vs, rd) ==
  LET missing == SelectSeq(vs, HasNoDate)
  IN  IF ~rd /\ missing # <<>>
        THEN Outcome("MissingDate", missing[1].version, missing[1].start_line, <<>>, <<>>)
        ELSE Pending

\* "Require dates (optional)"
CheckDates(vs, rd) ==
  LET missing == MissingDates(vs)
  IN  IF rd /\ missing # <<>>
        THEN Outcome("MissingDate", missing[1].version, missing[1].start_line, <<>>, <<>>)
        ELSE Pending

\* "Content sanity", and the return 0 behind it
CheckContent(vs) ==
  LET i == FirstBadContent(vs, 1)
  IN  IF i # 0
        THEN Outcome(ContentCheck(vs[i]), vs[i].version, vs[i].start_line, <<>>, <<>>)
        ELSE Success

\* the first of the outcomes rs that is not Pending
RECURSIVE FirstReturn(_)
FirstReturn(rs) ==
  IF Len(rs) = 1 \/ rs[1] # Pending THEN rs[1] ELSE FirstReturn(Tail(rs))

\* main from "Basic header sanity" on, as a function of the text read from
\* the file and of the two flags
main(text, ru, rd) ==
  LET secs == parse_sections(text)
      vs == VersionsOf(secs)
  IN  IF CheckHeader(text) # Pending THEN CheckHeader(text)
      ELSE FirstReturn(<<CheckUnreleased(secs, ru), CheckVersions(vs),
                         CheckDuplicates(vs), CheckOrder(vs),
                         CheckDates(vs, rd), CheckContent(vs)>>)

\* ------------------------------------------------------------------------
\* The run of main as a state machine
\* ------------------------------------------------------------------------

VARIABLES
  lines,              \* content.splitlines(True)
  require_unreleased, \* "--require-unreleased" in argv[2:]
  require_dates,      \* "--require-dates" in argv[2:]
  pc,                 \* the statement main is at
  idx,                \* lines the for loop of parse_sections has processed
  sections,           \* parse_sections: sections
  current,            \* parse_sections: current (<<>> is None)
  versions,           \* main: versions
  outcome             \* what main returned: Success or the failure

vars == <<lines, require_unreleased, require_dates, pc, idx, sections,
          current, versions, outcome>>

input == <<lines, require_unreleased, require_dates>>

\* return fail(...) / return 0
Return(r) ==
  /\ outcome' = r
  /\ pc' = "done"

\* a check that returns r when r is a failure and falls through to the
\* statement next otherwise
ReturnOrGo(r, next) ==
  IF r # Pending THEN Return(r) ELSE pc' = next /\ outcome' = outcome

HeaderStep ==
  /\ pc = "header"
  /\ ReturnOrGo(CheckHeader(lines), "parse")
  /\ UNCHANGED <<input, idx, sections, current, versions>>

\* one iteration of "for idx, raw in enumerate(lines, start=1)"
ParseStep ==
  /\ pc = "parse"
  /\ idx < Len(lines)
  /\ LET ps == ParseLine([sections |-> sections, current |-> current],
                         idx + 1, lines[idx + 1])
     IN  /\ sections' = ps.sections
         /\ current' = ps.current
  /\ idx' = idx + 1
  /\ UNCHANGED <<input, pc, versions, outcome>>

\* the flush() behind the loop, and "return sections"
ParseEnd ==
  /\ pc = "parse"
  /\ idx = Len(lines)
  /\ LET ps == flush([sections |-> sections, current |-> current])
     IN  /\ sections' = ps.sections
         /\ current' = ps.current
  /\ pc' = "unreleased"
  /\ UNCHANGED <<input, idx, versions, outcome>>

\* UnreleasedStep with the check for version sections moved in front of it
UnreleasedStepAfterVersions ==
  /\ pc = "unreleased"
  /\ ReturnOrGo(FirstReturn(<<CheckVersions(VersionsOf(sections)),
                              CheckUnreleased(sections, require_unreleased)>>),
                "versions")
  /\ UNCHANGED <<input, idx, sections, current, versions>>

UnreleasedStep ==
  /\ pc = "unreleased"
  /\ ReturnOrGo(CheckUnreleased(sections, require_unreleased), "versions")
  /\ UNCHANGED <<input, idx, sections, current, versions>>

VersionsStep ==
  /\ pc = "versions"
  /\ versions' = VersionsOf(sections)
  /\ ReturnOrGo(CheckVersions(versions'), "duplicates")
  /\ UNCHANGED <<input, idx, sections, current>>

DuplicatesStep ==
  /\ pc = "duplicates"
  /\ ReturnOrGo(CheckDuplicates(versions), "order")
  /\ UNCHANGED <<input, idx, sections, current, versions>>

OrderStep ==
  /\ pc = "order"
  /\ ReturnOrGo(CheckOrder(versions), "dates")
  /\ UNCHANGED <<input, idx, sections, current, versions>>

DatesStep ==
  /\ pc = "dates"
  /\ ReturnOrGo(CheckDates(versions, require_dates), "content")
  /\ UNCHANGED <<input, idx, sections, current, versions>>

ContentStep ==
  /\ pc = "content"
  /\ Return(CheckContent(versions))
  /\ UNCHANGED <<input, idx, sections, current, versions>>

Next ==
  \/ HeaderStep
  \/ ParseStep
  \/ ParseEnd
  \/ UnreleasedStep
  \/ VersionsStep
  \/ DuplicatesStep
  \/ OrderStep
  \/ DatesStep
  \/ ContentStep

\* the state main is in once the file is read and the flags are taken
Start(text, ru, rd) ==
  /\ lines = text
  /\ require_unreleased = ru
  /\ require_dates = rd
  /\ pc = "header"
  /\ idx = 0
  /\ sections = <<>>
  /\ current = <<>>
  /\ versions = <<>>
  /\ outcome = Pending

\* ------------------------------------------------------------------------
\* Input documents
\* ------------------------------------------------------------------------

\* a top-level title
Title == <<"#", " ", "C", "h", "a", "n", "g", "e", "l", "o", "g">>

\* an empty line
Blank == <<>>

\* a line of running text
Prose == <<"n", "o", "t", "e", "s">>

\* a list item
Bullet == <<"-", " ", "x">>

\* a category heading
CatAdded == <<"#", "#", "#", " ", "A", "d", "d", "e", "d">>

\* a category heading whose label follows a tab
CatTabbed == <<"#", "#", "#", "\t", "F", "i", "x", "e", "d">>

\* a level-3 heading that is no category
OtherH3 == <<"#", "#", "#", " ", "N", "o", "t", "e", "s">>

\* an indented line that reads like a category heading
IndentedH3 == <<" ", " ", "#", "#", "#", " ", "A", "d", "d", "e", "d">>

\* section headings
HUnreleased == <<"#", "#", " ", "[", "U", "n", "r", "e", "l", "e", "a", "s", "e", "d", "]">>

\* a level-2 heading that VERSION_RE does not match
HBadVersion == <<"#", "#", " ", "[", "2", ".", "x", ".", "0", "]">>

\* a date
ADate == <<"2", "0", "2", "4", "-", "0", "1", "-", "0", "1">>

\* "## [v]" and "## [v] - d"
HVersion(v) == <<"#", "#", " ", "[">> \o v \o <<"]">>

HVersionDated(v, d) == HVersion(v) \o <<" ", "-", " ">> \o d

\* version strings: 10 against 2 tells numeric from string order, and
\* 2.00.0 and 02.0.0 are 2.0.0 written with leading zeros
VersionStrings ==
  { <<"2", ".", "0", ".", "0">>,
    <<"2", ".", "0", "0", ".", "0">>,
    <<"0", "2", ".", "0", ".", "0">>,
    <<"1", "0", ".", "0", ".", "0">>,
    <<"2", ".", "1", ".", "0">>,
    <<"2", ".", "0", ".", "1", "0">> }

\* splitlines(True) keeps the line ends
Raw(content) == content \o <<"\n">>

RawLines(contents) == [i \in DOMAIN contents |-> Raw(contents[i])]

\* the sequences over S of length at most n
SeqsUpTo(S, n) == UNION {[1..k -> S] : k \in 0..n}

\* the concatenation of a sequence of sequences
RECURSIVE Flatten(_)
Flatten(ss) == IF ss = <<>> THEN <<>> ELSE ss[1] \o Flatten(Tail(ss))

\* n copies of x
Repeat(x, n) == [i \in 1..n |-> x]

\* --- Spec: any text over a small alphabet of lines ---

MaxLines == 4

LineAlphabet == {Prose, Bullet, HUnreleased, HBadVersion,
                 HVersion(<<"2", ".", "0", ".", "0">>)}

Init ==
  \E text \in SeqsUpTo(LineAlphabet, MaxLines), ru \in BOOLEAN, rd \in BOOLEAN :
    Start(RawLines(text), ru, rd)

Spec == Init /\ [][Next]_vars

\* --- SpecRules: a prefix, then up to MaxSections sections ---

MaxSections == 3

\* a title; empty lines that leave the first heading on line 20, the last of
\* lines[:20]; empty lines that push every heading out of lines[:20]
RulePrefixes ==
  {<<Title>>, Repeat(Blank, HeaderWindow - 1), Repeat(Blank, HeaderWindow)}

RuleHeadings ==
  { HVersion(<<"2", ".", "0", ".", "0">>),
    HVersion(<<"1", "0", ".", "0", ".", "0">>),
    HVersionDated(<<"1", "0", ".", "0", ".", "0">>, ADate) }

RuleBlocks ==
  {<<HUnreleased>>} \cup {<<h>> \o b : h \in RuleHeadings, b \in {<<>>, <<Bullet>>}}

InitRules ==
  \E pre \in RulePrefixes, blocks \in SeqsUpTo(RuleBlocks, MaxSections),
     ru \in BOOLEAN, rd \in BOOLEAN :
    Start(RawLines(pre \o Flatten(blocks)), ru, rd)

SpecRules == InitRules /\ [][Next]_vars

\* --- SpecVersions: a title, then up to MaxVersions version sections ---

MaxVersions == 3

VersionBlocks == {<<HVersionDated(v, ADate), Bullet>> : v \in VersionStrings}

InitVersions ==
  \E blocks \in SeqsUpTo(VersionBlocks, MaxVersions),
     ru \in BOOLEAN, rd \in BOOLEAN :
    Start(RawLines(<<Title>> \o Flatten(blocks)), ru, rd)

SpecVersions == InitVersions /\ [][Next]_vars

\* --- SpecContent: version sections with bodies of up to MaxBody lines ---

MaxBody == 3

BodyAlphabet == {Bullet, Blank, CatAdded, CatTabbed, OtherH3, IndentedH3}

Bodies == SeqsUpTo(BodyAlphabet, MaxBody)

\* the two version headings, the higher version first
UpperHeading == HVersionDated(<<"1", "0", ".", "0", ".", "0">>, ADate)

LowerHeading == HVersionDated(<<"2", ".", "0", ".", "0">>, ADate)

\* one section with any body; or two, one of them with any body and the
\* other with a body that passes or fails the content check
ContentDocs ==
  {<<Title, HUnreleased, UpperHeading>> \o b : b \in Bodies}
  \cup {<<Title, HUnreleased, UpperHeading>> \o a \o <<LowerHeading>> \o b :
          a \in {<<Bullet>>, <<CatAdded>>}, b \in Bodies}
  \cup {<<Title, HUnreleased, UpperHeading>> \o a \o <<LowerHeading>> \o b :
          a \in Bodies, b \in {<<Bullet, Blank>>, <<Bullet, CatAdded>>}}

\* both flags are set: every document has an Unreleased section and dated
\* headings, so that the content check decides the outcome
InitContent ==
  \E text \in ContentDocs : Start(RawLines(text), TRUE, TRUE)

SpecContent == InitContent /\ [][Next]_vars

\* ------------------------------------------------------------------------
\* What a document is, read off its lines without the parser
\* ------------------------------------------------------------------------

Min(a, b) == IF a <= b THEN a ELSE b

\* the text of line i, without its line end
LineText(i) == RStripNL(lines[i])

UnreleasedLines == {i \in 1..Len(lines) : UNRELEASED_RE(LineText(i))}

VersionLines == {i \in 1..Len(lines) : VERSION_RE(LineText(i)).ok}

HeadingLines == UnreleasedLines \cup VersionLines

\* the line of H at or above line i that is nearest to it, 0 without one
NearestIn(H, i) ==
  IF \E h \in H : h <= i
    THEN CHOOSE h \in H : h <= i /\ \A g \in H : g <= i => g <= h
    ELSE 0

\* the line of H below line h that is nearest to it; without one, the line
\* behind the last line of the text
NextIn(H, h) ==
  IF \E g \in H : g > h
    THEN CHOOSE g \in H : g > h /\ \A f \in H : f > h => g <= f
    ELSE Len(lines) + 1

\* the heading line at or above line i that is nearest to it, 0 without one
NearestHeading(i) == NearestIn(HeadingLines, i)

\* the line behind the last line of the section that heading line h opens
SectionEnd(h) == NextIn(HeadingLines, h)

\* the lines below heading line h, up to the next heading line
BodyOf(h) == [k \in 1..(SectionEnd(h) - h - 1) |-> LineText(h + k)]

VersionAt(h) == VERSION_RE(LineText(h)).ver

DateOfLine(h) == VERSION_RE(LineText(h)).date

TripleAt(h) == semver_key(VersionAt(h))

\* ------------------------------------------------------------------------
\* C9: the parse pass
\* ------------------------------------------------------------------------

\* the sections the pass holds: those emitted, then the open one
Held == sections \o current

Opening(i) == {k \in 1..Len(Held) : Held[k].start_line = i}

Holding(i) ==
  {k \in 1..Len(Held) :
     Held[k].start_line < i /\ i <= Held[k].start_line + Len(Held[k].lines)}

\* C9: after every step of the parse pass, and at its end, each line
\* processed so far is a discarded preamble line (no heading above it, in no
\* section), or a heading line that opened exactly one section (its
\* start_line), or a line of the body of exactly one section, the one that
\* the nearest heading above it opened; no body holds a line that matches a
\* heading pattern; and the sections stand in the order of their headings,
\* with strictly increasing start_line.
C9_ParsePartition ==
  pc \in {"parse", "unreleased"} =>
   LET H == HeadingLines IN
    /\ \A i \in 1..idx :
         LET h == NearestIn(H, i)
         IN  IF h = 0 THEN Opening(i) = {} /\ Holding(i) = {}
             ELSE IF h = i
               THEN Cardinality(Opening(i)) = 1 /\ Holding(i) = {}
             ELSE /\ Opening(i) = {}
                  /\ Cardinality(Holding(i)) = 1
                  /\ \A k \in Holding(i) :
                       /\ Held[k].start_line = h
                       /\ Held[k].lines[i - h] = LineText(i)
    /\ \A k \in 1..Len(Held) :
         /\ Held[k].start_line \in 1..idx
         /\ Held[k].start_line + Len(Held[k].lines) <= idx
         /\ \A j \in 1..Len(Held[k].lines) :
              /\ ~UNRELEASED_RE(Held[k].lines[j])
              /\ ~VERSION_RE(Held[k].lines[j]).ok
    /\ \A k \in 1..(Len(Held) - 1) : Held[k].start_line < Held[k + 1].start_line
    /\ Len(Held) = Cardinality({h \in H : h <= idx})

\* the pass is over a text with a preamble line, a section already emitted
\* with a line in its body, and a later section still open
C9_Witness ==
  /\ pc = "parse"
  /\ idx = Len(lines)
  /\ NearestHeading(1) = 0
  /\ Len(sections) >= 1 /\ Len(sections[1].lines) >= 1
  /\ current # <<>>

\* ------------------------------------------------------------------------
\* C7: documents without a section heading
\* ------------------------------------------------------------------------

\* C7 as stated: for every input in which no line is a section heading, and
\* for every setting of the flags, the outcome is MissingHeader or NoVersions.
C7_AsStated ==
  (pc = "done" /\ HeadingLines = {}) =>
    outcome.kind \in {"MissingHeader", "NoVersions"}

\* some line among the first 20 has "#" as its first character that is not
\* whitespace
HeaderPresent ==
  \E i \in 1..Min(Len(lines), HeaderWindow) :
    \E j \in 1..Len(lines[i]) :
      /\ lines[i][j] = "#"
      /\ \A k \in 1..(j - 1) : lines[i][k] \in Whitespace

\* C7 (amended): for every input in which no line is a section heading, the
\* outcome is MissingHeader when no line among the first 20 begins with "#",
\* and otherwise MissingUnreleased when require_unreleased is set and
\* NoVersions when it is not; never another failure, never success.
C7_NoHeadings ==
  (pc = "done" /\ HeadingLines = {}) =>
    outcome.kind = (IF ~HeaderPresent THEN "MissingHeader"
                    ELSE IF require_unreleased THEN "MissingUnreleased"
                    ELSE "NoVersions")

\* a text with a title and a malformed heading but no section heading,
\* checked with require_unreleased set, has been rejected
C7_Witness ==
  /\ pc = "done"
  /\ HeadingLines = {}
  /\ Len(lines) >= 2
  /\ HeaderPresent
  /\ require_unreleased
  /\ outcome.kind = "MissingUnreleased"

\* ------------------------------------------------------------------------
\* The rules as properties of the document
\* ------------------------------------------------------------------------

\* some category heading of body has a bullet below it with no line between
\* the two whose stripped text starts with "### "
BulletUnderCategory(body) ==
  \E c \in 1..Len(body), b \in 1..Len(body) :
    /\ c < b
    /\ CATEGORY_RE(body[c])
    /\ BULLET_RE(body[b])
    /\ \A k \in (c + 1)..(b - 1) :
         ~StartsWith(Strip(body[k]), <<"#", "#", "#", " ">>)

NoBullet(body) == \A k \in 1..Len(body) : ~BULLET_RE(body[k])

HasCategory(body) == \E k \in 1..Len(body) : CATEGORY_RE(body[k])

\* k-th rule of the pipeline, as the script decides it, violated by the
\* document and the flags
RuleViolated(k) ==
  CASE k = 1 -> ~HeaderPresent
    [] k = 2 -> require_unreleased /\ UnreleasedLines = {}
    [] k = 3 -> VersionLines = {}
    [] k = 4 -> \E i \in VersionLines, j \in VersionLines :
                  i < j /\ VersionAt(i) = VersionAt(j)
    [] k = 5 -> \E i \in VersionLines, j \in VersionLines :
                  i < j /\ KeyGreater(TripleAt(j), TripleAt(i))
    [] k = 6 -> require_dates /\ \E h \in VersionLines : DateOfLine(h) = None
    [] k = 7 -> \E h \in VersionLines :
                  \/ NoBullet(BodyOf(h))
                  \/ HasCategory(BodyOf(h)) /\ ~BulletUnderCategory(BodyOf(h))

Rules == 1..7

\* the failures rule k reports
KindsOfRule(k) ==
  CASE k = 1 -> {"MissingHeader"}
    [] k = 2 -> {"MissingUnreleased"}
    [] k = 3 -> {"NoVersions"}
    [] k = 4 -> {"DuplicateVersion"}
    [] k = 5 -> {"OutOfOrder"}
    [] k = 6 -> {"MissingDate"}
    [] k = 7 -> {"EmptySection", "UncategorizedContent"}

\* the rule main is about to evaluate
RuleAt(p) ==
  CASE p = "header" -> 1
    [] p = "parse" -> 2
    [] p = "unreleased" -> 2
    [] p = "versions" -> 3
    [] p = "duplicates" -> 4
    [] p = "order" -> 5
    [] p = "dates" -> 6
    [] p = "content" -> 7
    [] p = "done" -> 8

RulesPass(ks) == \A k \in ks : ~RuleViolated(k)

\* ------------------------------------------------------------------------
\* C1: the order of the rules
\* ------------------------------------------------------------------------

C2_AsStated ==
  (pc = "done" /\ HeaderPresent) =>
    /\ require_unreleased =>
         (outcome.kind = "MissingUnreleased" <=> Cardinality(UnreleasedLines) # 1)
    /\ ~require_unreleased => outcome.kind # "MissingUnreleased"

\* C2 (amended): with require_unreleased set and the header rule passed, a
\* document gets past the Unreleased requirement if and only if it has at
\* least one Unreleased section: none is rejected with MissingUnreleased, two
\* or more are accepted like one.  Without require_unreleased the number of
\* Unreleased sections causes no failure.
C2_AtLeastOneUnreleased ==
  (pc = "done" /\ HeaderPresent) =>
    (outcome.kind = "MissingUnreleased"
       <=> require_unreleased /\ UnreleasedLines = {})

\* a document with two Unreleased sections, checked with require_unreleased
\* set, got past the Unreleased requirement
C2_Witness ==
  /\ pc = "done"
  /\ HeaderPresent
  /\ require_unreleased
  /\ Cardinality(UnreleasedLines) >= 2
  /\ outcome.kind # "MissingUnreleased"

\* ------------------------------------------------------------------------
\* C10: the date requirement
\* ------------------------------------------------------------------------

UndatedLines == {h \in VersionLines : DateOfLine(h) = None}

\* C10: with require_dates set and rules 1-5 passed, the outcome is
\* MissingDate if and only if some version section has no date, and the
\* version and line reported are those of the first such section; without
\* require_dates a missing date causes no failure.
C10_MissingDate ==
  pc = "done" =>
    /\ (require_dates /\ RulesPass(1..5)) =>
         /\ outcome.kind = "MissingDate" <=> UndatedLines # {}
         /\ UndatedLines # {} =>
              /\ \A h \in UndatedLines : outcome.line <= h
              /\ outcome.line \in UndatedLines
              /\ outcome.version = VersionAt(outcome.line)
    /\ ~require_dates => outcome.kind # "MissingDate"

\* a document with two undated version sections, checked with require_dates
\* set, has been rejected for the first of them
C10_Witness ==
  /\ pc = "done"
  /\ require_dates
  /\ Cardinality(UndatedLines) >= 2
  /\ outcome.kind = "MissingDate"
  /\ \A h \in UndatedLines : outcome.line <= h

\* ------------------------------------------------------------------------
\* C3, C4: version uniqueness and order
\* ------------------------------------------------------------------------

\* the version lines whose triple stands on a version line above them
RepeatedTripleLines ==
  {j \in VersionLines : \E i \in VersionLines : i < j /\ TripleAt(i) = TripleAt(j)}

\* the triples of the version sections, top to bottom, strictly descending
\* under the numeric comparison of (major, minor, patch)
StrictlyDescending ==
  \A i \in VersionLines, j \in VersionLines :
    i < j => KeyGreater(TripleAt(i), TripleAt(j))

\* C3 as stated: whenever rules 1-3 pass and two version sections carry the
\* same numeric triple (also when their headings differ by leading zeros),
\* the outcome is DuplicateVersion, and the line reported is the start_line
\* of the first section whose triple occurred in a section above it.
C3_AsStated ==
  (pc = "done" /\ RulesPass(1..3) /\ RepeatedTripleLines # {}) =>
    /\ outcome.kind = "DuplicateVersion"
    /\ outcome.line \in RepeatedTripleLines
    /\ \A j \in RepeatedTripleLines : outcome.line <= j

\* C4 as stated: whenever rules 1-4 pass (no two version sections with the
\* same triple), the outcome is OutOfOrder if and only if the triples are not
\* strictly descending; so validation never succeeds on a document in which
\* the triple of some version section is greater than or equal to that of a
\* version section above it.
C4_AsStated ==
  pc = "done" =>
    /\ (RulesPass(1..3) /\ RepeatedTripleLines = {}) =>
         (outcome.kind = "OutOfOrder" <=> ~StrictlyDescending)
    /\ outcome = Success => StrictlyDescending

\* ------------------------------------------------------------------------
\* C5, C6, C8: content sanity
\* ------------------------------------------------------------------------

\* the body fails sub-check 7a or sub-check 7b
Offending(body) ==
  \/ NoBullet(body)
  \/ HasCategory(body) /\ ~BulletUnderCategory(body)

OffendingLines == {h \in VersionLines : Offending(BodyOf(h))}

\* the heading line of the first offending version section (0 without one)
FirstOffending ==
  LET O == OffendingLines
  IN  IF O = {} THEN 0 ELSE CHOOSE h \in O : \A g \in O : h <= g

\* C5 as stated: when rules 1-6 pass and the body of the first offending
\* version section has category headings but no bullet under any of them
\* (also when it has no bullet at all), the outcome is UncategorizedContent;
\* EmptySection is the outcome only for a body with no bullet and no
\* category heading.
C5_AsStated ==
  (pc = "done" /\ RulesPass(1..6) /\ FirstOffending # 0) =>
    LET body == BodyOf(FirstOffending)
    IN  /\ HasCategory(body) => outcome.kind = "UncategorizedContent"
        /\ outcome.kind = "EmptySection" => NoBullet(body) /\ ~HasCategory(body)

\* C5 (amended): when rules 1-6 pass, the first offending version section is
\* the one reported; the outcome is EmptySection when its body has no bullet
\* at all, with or without category headings, and UncategorizedContent only
\* when its body has a bullet and category headings but no bullet under any
\* of them.
C5_EmptyBeforeUncategorized ==
  (pc = "done" /\ RulesPass(1..6) /\ FirstOffending # 0) =>
    LET body == BodyOf(FirstOffending)
    IN  /\ outcome.line = FirstOffending
        /\ outcome.version = VersionAt(FirstOffending)
        /\ outcome.kind = (IF NoBullet(body) THEN "EmptySection"
                           ELSE "UncategorizedContent")

\* a version section with category headings and no bullet at all has been
\* rejected as an EmptySection
C5_Witness ==
  /\ pc = "done"
  /\ FirstOffending # 0
  /\ HasCategory(BodyOf(FirstOffending))
  /\ NoBullet(BodyOf(FirstOffending))
  /\ Len(BodyOf(FirstOffending)) >= 3
  /\ outcome.kind = "EmptySection"
  /\ outcome.line = FirstOffending

\* a body with a bullet and without category headings
Plain(body) == ~NoBullet(body) /\ ~HasCategory(body)

\* the version sections with a bullet and a category heading below nothing
\* but plain version sections: what the content check says of them shows in
\* the outcome
JudgedLines ==
  {h \in VersionLines :
     /\ ~NoBullet(BodyOf(h)) /\ HasCategory(BodyOf(h))
     /\ \A g \in VersionLines : g < h => Plain(BodyOf(g))}

\* main rejected the section of heading line h in sub-check 7b
Rejected7b(h) == outcome.kind = "UncategorizedContent" /\ outcome.line = h

\* some category heading of body has a bullet below it with no line between
\* the two that CATEGORY_RE matches
BulletBeforeNextCategory(body) ==
  \E c \in 1..Len(body), b \in 1..Len(body) :
    /\ c < b
    /\ CATEGORY_RE(body[c])
    /\ BULLET_RE(body[b])
    /\ \A k \in (c + 1)..(b - 1) : ~CATEGORY_RE(body[k])

\* C6 as stated: a version section with a bullet and a category heading
\* passes sub-check 7b if and only if some category heading has a bullet
\* after it and before the next category heading or the end of the body;
\* lines that are no category headings do not end the span of a category.
C6_AsStated ==
  (pc = "done" /\ RulesPass(1..6)) =>
    \A h \in JudgedLines :
      ~Rejected7b(h) <=> BulletBeforeNextCategory(BodyOf(h))

\* C6 (amended): a version section with a bullet and a category heading
\* passes sub-check 7b if and only if some category heading has a bullet
\* after it and before the next line whose stripped text starts with "### "
\* or the end of the body.  One such category suffices.  Every level-3
\* heading with a space behind the "###" ends the span, indented or not,
\* category or not; a category heading with another whitespace character
\* behind the "###" does not.
C6_SpanEndsAtLevel3 ==
  (pc = "done" /\ RulesPass(1..6)) =>
    \A h \in JudgedLines :
      ~Rejected7b(h) <=> BulletUnderCategory(BodyOf(h))

\* a version section whose only bullet stands behind a category heading and
\* a level-3 heading that is no category has been rejected in sub-check 7b
C6_Witness ==
  /\ pc = "done"
  /\ \E h \in JudgedLines :
       /\ BulletBeforeNextCategory(BodyOf(h))
       /\ ~BulletUnderCategory(BodyOf(h))
       /\ Rejected7b(h)

\* every version section has a bullet
AllHaveBullet == \A h \in VersionLines : ~NoBullet(BodyOf(h))

\* C8 as stated: a document that passes the header rule and the enabled flag
\* rules, whose version triples are pairwise distinct and descending, and in
\* which every version section has a bullet, is valid (wherever the bullets
\* stand in the bodies).
C8_AsStated ==
  (pc = "done" /\ RulesPass(1..6) /\ StrictlyDescending /\ AllHaveBullet) =>
    outcome = Success

\* the text with lines i and i + 1 exchanged
SwapLines(text, i) ==
  [k \in DOMAIN text |->
     IF k = i THEN text[i + 1] ELSE IF k = i + 1 THEN text[i] ELSE text[k]]

\* the pairs of neighbouring lines in the body of a version section without
\* category headings
PlainSwaps ==
  {i \in 1..(Len(lines) - 1) :
     /\ i \notin HeadingLines /\ (i + 1) \notin HeadingLines
     /\ NearestHeading(i) \in VersionLines
     /\ ~HasCategory(BodyOf(NearestHeading(i)))}

\* C8 (amended): a document that passes the header rule and the enabled flag
\* rules, whose version triples are pairwise distinct and descending, and in
\* which every version section has a bullet and, when it has category
\* headings, a bullet under one of them, is valid; it stays valid when the
\* lines of a body without category headings are permuted.
C8_ValidWhenCategorized ==
  (/\ pc = "done" /\ RulesPass(1..6) /\ StrictlyDescending
   /\ \A h \in VersionLines : ~Offending(BodyOf(h))) =>
    /\ outcome = Success
    /\ \A i \in PlainSwaps :
         main(SwapLines(lines, i), require_unreleased, require_dates) = Success

\* a document is valid with a section that has a category heading without a
\* bullet under it besides one with a bullet, and with a section without
\* category headings whose lines can be exchanged
C8_Witness ==
  /\ pc = "done"
  /\ outcome = Success
  /\ PlainSwaps # {}
  /\ \E h \in VersionLines :
       LET body == BodyOf(h)
       IN  /\ Len(body) >= 3
           /\ CATEGORY_RE(body[Len(body)])
           /\ BulletUnderCategory(body)

\* ------------------------------------------------------------------------
\* C11: the flags only add rules
\* ------------------------------------------------------------------------

\* the rule that reports failures of kind k
RuleOfKind(k) == CHOOSE r \in Rules : k \in KindsOfRule(r)

\* what main returns for the document of this run under the flags ru, rd
Rerun(ru, rd) == main(lines, ru, rd)

\* C11: if validation succeeds under the flags of the run, it succeeds under
\* every setting that has some of them switched off; and if it fails with
\* both flags off, it fails under every setting of the flags, with the same
\* failure, or with MissingUnreleased (require_unreleased on) or MissingDate
\* (require_dates on) where that rule comes before the rule of the original
\* failure.
C11_FlagMonotonicity ==
  pc = "done" =>
    /\ outcome = Success =>
         \A ru \in BOOLEAN, rd \in BOOLEAN :
           ((ru => require_unreleased) /\ (rd => require_dates)) =>
             Rerun(ru, rd) = Success
    /\ (~require_unreleased /\ ~require_dates /\ outcome # Success) =>
         \A ru \in BOOLEAN, rd \in BOOLEAN :
           LET r == Rerun(ru, rd)
           IN  \/ r = outcome
               \/ /\ ru
                  /\ r.kind = "MissingUnreleased"
                  /\ RuleOfKind(r.kind) < RuleOfKind(outcome.kind)
               \/ /\ rd
                  /\ r.kind = "MissingDate"
                  /\ RuleOfKind(r.kind) < RuleOfKind(outcome.kind)

\* a document rejected in the content check with both flags off is rejected
\* for its missing date with require_dates on and for its missing Unreleased
\* section with both flags on; and it has a later version section that is
\* valid on its own
C11_Witness ==
  /\ pc = "done"
  /\ ~require_unreleased /\ ~require_dates
  /\ outcome.kind = "EmptySection"
  /\ Rerun(FALSE, TRUE).kind = "MissingDate"
  /\ Rerun(TRUE, FALSE).kind = "MissingUnreleased"
  /\ Rerun(TRUE, TRUE).kind = "MissingUnreleased"
  /\ Cardinality(VersionLines) >= 2

\* a document valid under both flags is valid under every setting of them
C11_WitnessValid ==
  /\ pc = "done"
  /\ require_unreleased /\ require_dates
  /\ outcome = Success
  /\ Rerun(FALSE, FALSE) = Success

====
